---- MODULE Spec2Model ----
(***************************************************************************)
(* Model of point_cloud_transformer.py (Python 2, PyQt4, pandas).          *)
(*                                                                         *)
(* PointCloudTransformer.start runs once from __init__: the file dialog,   *)
(* the subsample dialog, Logic.validate_subsample, and then either         *)
(* Logic.transform (_clean_cloud followed by _create_xlsx) or the warning  *)
(* box of SubSampleDialog.input_error.                                     *)
(*                                                                         *)
(* Text is a sequence of one-character strings; "CR" and "LF" stand for    *)
(* '\r' and '\n'.  A float is held exactly, as an integer count of         *)
(* 1/Scale units.                                                          *)
(***************************************************************************)
EXTENDS Integers, Sequences, FiniteSets, TLC

VARIABLES pc, fileDlg, subDlg, text, value, points, file, lineno,
          xlsx, sampled, warnings, prompts, calls

vars == <<pc, fileDlg, subDlg, text, value, points, file, lineno,
          xlsx, sampled, warnings, prompts, calls>>

----------------------------------------------------------------------------
(* Bounds *)

MaxFileLen == 6
MaxLines == 3
MaxTextLen == 4

----------------------------------------------------------------------------
(* Characters and input sets *)

CR == "CR"
LF == "LF"

FileChars == {"#", ",", CR, LF, "d"}
TextChars == {"0", "1", "5", ".", "-", "a"}
Digits == {"0", "1", "2", "3", "4", "5", "6", "7", "8", "9"}

RECURSIVE Pow10(_)
Pow10(k) == IF k = 0 THEN 1 ELSE 10 * Pow10(k - 1)

Scale == Pow10(MaxTextLen)

SeqsUpTo(S, n) == UNION {[1..k -> S] : k \in 0..n}

\* Contents of the selected file, character by character.
CharFiles == SeqsUpTo(FileChars, MaxFileLen)

\* Lines a PolyWorks export is made of: a noise line, a CRLF-terminated
\* record, an LF-terminated record, a two-field line and a blank line.
LineChoices ==
    { <<"#", "d", CR, LF>>,
      <<"d", ",", "d", ",", "d", CR, LF>>,
      <<"e", ",", "e", ",", "e", LF>>,
      <<"d", ",", "d", CR, LF>>,
      <<CR, LF>> }

RECURSIVE Concat(_)
Concat(ss) == IF ss = <<>> THEN <<>> ELSE Head(ss) \o Concat(Tail(ss))

LineFiles == {Concat(ls) : ls \in SeqsUpTo(LineChoices, MaxLines)}

\* What the user can type into the QLineEdit.
Texts == SeqsUpTo(TextChars, MaxTextLen)

DefaultText == <<"1", ".", "0">>

----------------------------------------------------------------------------
(* Python values *)

None == [none |-> TRUE, x |-> 0]
Float(n) == [none |-> FALSE, x |-> n]

\* bool(v) as used by "if self.value:".
Truthy(v) == ~v.none /\ v.x # 0

----------------------------------------------------------------------------
(* float(x) on the text of the line edit *)

DigitVal(c) ==
    CASE c = "0" -> 0 [] c = "1" -> 1 [] c = "2" -> 2 [] c = "3" -> 3
      [] c = "4" -> 4 [] c = "5" -> 5 [] c = "6" -> 6 [] c = "7" -> 7
      [] c = "8" -> 8 [] c = "9" -> 9

RECURSIVE DigitsVal(_)
DigitsVal(s) ==
    IF s = <<>> THEN 0
    ELSE 10 * DigitsVal(SubSeq(s, 1, Len(s) - 1)) + DigitVal(s[Len(s)])

\* [ok |-> the text is a float literal, x |-> its value in 1/Scale units].
ParseFloat(s) ==
    LET neg  == s # <<>> /\ s[1] = "-"
        body == IF neg THEN Tail(s) ELSE s
        dots == {i \in 1..Len(body) : body[i] = "."}
        digs == {i \in 1..Len(body) : body[i] \in Digits}
        ok   == /\ Cardinality(dots) <= 1
                /\ Cardinality(digs) >= 1
                /\ dots \cup digs = 1..Len(body)
        dot  == IF dots = {} THEN Len(body) + 1 ELSE CHOOSE i \in dots : TRUE
        ip   == SubSeq(body, 1, dot - 1)
        fp   == SubSeq(body, dot + 1, Len(body))
        mag  == DigitsVal(ip) * Scale + DigitsVal(fp) * Pow10(MaxTextLen - Len(fp))
    IN  IF ok THEN [ok |-> TRUE, x |-> IF neg THEN 0 - mag ELSE mag]
        ELSE [ok |-> FALSE, x |-> 0]

\* validate_subsample with the test "0.0 < x < 1.0"
validate_subsample_lt1(x) ==
    LET p == ParseFloat(x)
    IN  IF ~p.ok THEN None
        ELSE IF 0 < p.x /\ p.x < Scale THEN Float(p.x)
        ELSE None

\* validate_subsample with the test "0.0 <= x <= 1.0"
validate_subsample_ge0(x) ==
    LET p == ParseFloat(x)
    IN  IF ~p.ok THEN None
        ELSE IF 0 <= p.x /\ p.x <= Scale THEN Float(p.x)
        ELSE None

validate_subsample(x) ==
    LET p == ParseFloat(x)
    IN  IF ~p.ok THEN None
        ELSE IF 0 < p.x /\ p.x <= Scale THEN Float(p.x)
        ELSE None

----------------------------------------------------------------------------
(* Reading and cleaning *)

\* "for line in f" on a file opened 'rb': a line ends after each '\n';
\* the last line may have no terminator.
RECURSIVE Lines(_)
Lines(s) ==
    IF s = <<>> THEN <<>>
    ELSE LET nl == {i \in 1..Len(s) : s[i] = LF}
         IN  IF nl = {} THEN <<s>>
             ELSE LET i == CHOOSE j \in nl : \A k \in nl : j <= k
                  IN  <<SubSeq(s, 1, i)>> \o Lines(SubSeq(s, i + 1, Len(s)))

\* str.split(',')
RECURSIVE Split(_)
Split(s) ==
    LET cs == {i \in 1..Len(s) : s[i] = ","}
    IN  IF cs = {} THEN <<s>>
        ELSE LET i == CHOOSE j \in cs : \A k \in cs : j <= k
             IN  <<SubSeq(s, 1, i - 1)>> \o Split(SubSeq(s, i + 1, Len(s)))

\* str.replace('\r\n', '')
RECURSIVE Replace(_)
Replace(s) ==
    IF Len(s) < 2 THEN s
    ELSE IF s[1] = CR /\ s[2] = LF THEN Replace(SubSeq(s, 3, Len(s)))
    ELSE <<s[1]>> \o Replace(Tail(s))

\* '#' in line
IsNoise_anywhere(line) == \E i \in 1..Len(line) : line[i] = "#"

\* line[0] == '#'
IsNoise(line) == line[1] = "#"

\* row[2] raises IndexError
RaisesIndexError(line) == Len(Split(line)) < 3

\* row = line.split(',')[:3]; row[2] = row[2].replace('\r\n', '')
CleanRow_first3(line) ==
    LET row == SubSeq(Split(line), 1, 3)
    IN  [row EXCEPT ![3] = Replace(row[3])]

\* row = line.split(','); row[2] = row[2].replace('\r\n', '')
CleanRow(line) ==
    LET row == Split(line)
    IN  [row EXCEPT ![3] = Replace(row[3])]

----------------------------------------------------------------------------
(* Sampling *)

\* n = int(frac * len(df))
SampleSize_trunc(frac, n) == (frac * n) \div Scale

\* DataFrame.sample(frac=...): n = int(round(frac * len(df))), Python 2 round.
SampleSize(frac, n) == (2 * frac * n + Scale) \div (2 * Scale)

\* Positions drawn with replacement (replace=True).
Samples_replace(n, k) == [1..k -> 1..n]

\* Positions drawn without replacement.
Samples(n, k) == {s \in [1..k -> 1..n] : \A i, j \in 1..k : i # j => s[i] # s[j]}

----------------------------------------------------------------------------
(* State machine *)

NoFile == [exists |-> FALSE, rows |-> <<>>]

Init ==
    /\ pc = "select_file"
    /\ fileDlg = "unshown"
    /\ subDlg = "unshown"
    /\ text = DefaultText
    /\ value = None
    /\ points = <<>>
    /\ file = <<>>
    /\ lineno = 0
    /\ xlsx = NoFile
    /\ sampled = <<>>
    /\ warnings = 0
    /\ prompts = 0
    /\ calls = <<>>

\* select_file_view.exec_() returns true
SelectFileAccept ==
    /\ pc = "select_file"
    /\ fileDlg' = "accepted"
    /\ pc' = "subsample"
    /\ UNCHANGED <<subDlg, text, value, points, file, lineno, xlsx, sampled,
                   warnings, prompts, calls>>

\* select_file_view.exec_() returns false: start returns
SelectFileReject ==
    /\ pc = "select_file"
    /\ fileDlg' = "rejected"
    /\ pc' = "done"
    /\ UNCHANGED <<subDlg, text, value, points, file, lineno, xlsx, sampled,
                   warnings, prompts, calls>>

\* subsample_view.exec_() returns true with some text in the line edit
SubsampleAccept ==
    /\ pc = "subsample"
    /\ \E t \in Texts : text' = t
    /\ subDlg' = "accepted"
    /\ prompts' = prompts + 1
    /\ pc' = "validate"
    /\ UNCHANGED <<fileDlg, value, points, file, lineno, xlsx, sampled,
                   warnings, calls>>

\* start ignoring the result of subsample_view.exec_()
SubsampleReject_ignored ==
    /\ pc = "subsample"
    /\ subDlg' = "rejected"
    /\ prompts' = prompts + 1
    /\ pc' = "validate"
    /\ UNCHANGED <<fileDlg, text, value, points, file, lineno, xlsx, sampled,
                   warnings, calls>>

\* subsample_view.exec_() returns false: start returns
SubsampleReject ==
    /\ pc = "subsample"
    /\ subDlg' = "rejected"
    /\ prompts' = prompts + 1
    /\ pc' = "done"
    /\ UNCHANGED <<fileDlg, text, value, points, file, lineno, xlsx, sampled,
                   warnings, calls>>

\* self.value = validate_subsample(le.text()); if self.value: ... else: ...
Validate ==
    /\ pc = "validate"
    /\ value' = validate_subsample(text)
    /\ pc' = IF Truthy(value') THEN "transform" ELSE "input_error"
    /\ UNCHANGED <<fileDlg, subDlg, text, points, file, lineno, xlsx, sampled,
                   warnings, prompts, calls>>

\* subsample_view.input_error(): the warning box; start then returns
InputError ==
    /\ pc = "input_error"
    /\ warnings' = warnings + 1
    /\ pc' = "done"
    /\ UNCHANGED <<fileDlg, subDlg, text, value, points, file, lineno, xlsx,
                   sampled, prompts, calls>>

\* logic.transform(filepath, points, value) up to open(filepath, 'rb')
Transform ==
    /\ pc = "transform"
    /\ calls' = Append(calls, [container |-> points, subsample |-> value])
    /\ \E f \in LineFiles : file' = f
    /\ lineno' = 1
    /\ pc' = "clean"
    /\ UNCHANGED <<fileDlg, subDlg, text, value, points, xlsx, sampled,
                   warnings, prompts>>

\* a line starting with '#': pass
CleanSkip ==
    /\ pc = "clean"
    /\ lineno <= Len(Lines(file))
    /\ IsNoise(Lines(file)[lineno])
    /\ lineno' = lineno + 1
    /\ UNCHANGED <<pc, fileDlg, subDlg, text, value, points, file, xlsx,
                   sampled, warnings, prompts, calls>>

\* any other line with a third field: container.append(row)
CleanAppend ==
    /\ pc = "clean"
    /\ lineno <= Len(Lines(file))
    /\ ~IsNoise(Lines(file)[lineno])
    /\ ~RaisesIndexError(Lines(file)[lineno])
    /\ points' = Append(points, CleanRow(Lines(file)[lineno]))
    /\ lineno' = lineno + 1
    /\ UNCHANGED <<pc, fileDlg, subDlg, text, value, file, xlsx, sampled,
                   warnings, prompts, calls>>

\* the IndexError swallowed and the line skipped
CleanRaise_swallowed ==
    /\ pc = "clean"
    /\ lineno <= Len(Lines(file))
    /\ ~IsNoise(Lines(file)[lineno])
    /\ RaisesIndexError(Lines(file)[lineno])
    /\ lineno' = lineno + 1
    /\ UNCHANGED <<pc, fileDlg, subDlg, text, value, points, file, xlsx,
                   sampled, warnings, prompts, calls>>

\* any other line without a third field: IndexError leaves transform,
\* start and __init__
CleanRaise ==
    /\ pc = "clean"
    /\ lineno <= Len(Lines(file))
    /\ ~IsNoise(Lines(file)[lineno])
    /\ RaisesIndexError(Lines(file)[lineno])
    /\ pc' = "crashed"
    /\ UNCHANGED <<fileDlg, subDlg, text, value, points, file, lineno, xlsx,
                   sampled, warnings, prompts, calls>>

\* end of file: return container
CleanReturn ==
    /\ pc = "clean"
    /\ lineno > Len(Lines(file))
    /\ pc' = "create_xlsx"
    /\ UNCHANGED <<fileDlg, subDlg, text, value, points, file, lineno, xlsx,
                   sampled, warnings, prompts, calls>>

\* _create_xlsx: DataFrame(data).sample(frac=subsample, ...).to_excel(...)
CreateXlsx ==
    /\ pc = "create_xlsx"
    /\ \E s \in Samples(Len(points), SampleSize(value.x, Len(points))) :
          /\ sampled' = s
          /\ xlsx' = [exists |-> TRUE,
                      rows |-> [i \in 1..Len(s) |-> points[s[i]]]]
    /\ pc' = "done"
    /\ UNCHANGED <<fileDlg, subDlg, text, value, points, file, lineno,
                   warnings, prompts, calls>>

Next ==
    \/ SelectFileAccept
    \/ SelectFileReject
    \/ SubsampleAccept
    \/ SubsampleReject
    \/ Validate
    \/ InputError
    \/ Transform
    \/ CleanSkip
    \/ CleanAppend
    \/ CleanRaise
    \/ CleanReturn
    \/ CreateXlsx

Spec == Init /\ [][Next]_vars

----------------------------------------------------------------------------
(* _clean_cloud on its own: the state when transform opens the file, with  *)
(* the default fraction, for every file content up to MaxFileLen.          *)

InitClean ==
    /\ pc = "clean"
    /\ fileDlg = "accepted"
    /\ subDlg = "accepted"
    /\ text = DefaultText
    /\ value = validate_subsample(DefaultText)
    /\ points = <<>>
    /\ file \in CharFiles
    /\ lineno = 1
    /\ xlsx = NoFile
    /\ sampled = <<>>
    /\ warnings = 0
    /\ prompts = 1
    /\ calls = <<[container |-> <<>>, subsample |-> validate_subsample(DefaultText)]>>

NextClean ==
    \/ CleanSkip
    \/ CleanAppend
    \/ CleanRaise
    \/ CleanReturn

SpecClean == InitClean /\ [][NextClean]_vars

----------------------------------------------------------------------------
(* Properties *)

\* The line feeds and carriage returns taken out of a text.
StripEol(s) == SelectSeq(s, LAMBDA c : c \notin {CR, LF})

\* The fields of a row put back together with commas.
RECURSIVE Join(_)
Join(row) ==
    IF row = <<>> THEN <<>>
    ELSE IF Len(row) = 1 THEN row[1]
    ELSE row[1] \o <<",">> \o Join(Tail(row))

Commas(line) == Cardinality({i \in 1..Len(line) : line[i] = ","})

\* The lines of the opened file that do not start with '#'.
KeptLines == SelectSeq(Lines(file), LAMBDA l : Head(l) # "#")

HasNoiseLine == \E i \in 1..Len(Lines(file)) : Head(Lines(file)[i]) = "#"

\* Positions of the lines that do not start with '#' and have fewer than
\* three comma-separated fields.
BadLines ==
    {i \in 1..Len(Lines(file)) :
        Head(Lines(file)[i]) # "#" /\ Commas(Lines(file)[i]) < 2}

Count(seq, r) == Cardinality({i \in 1..Len(seq) : seq[i] = r})

\* C1: when _clean_cloud returns, the container started empty holds one row
\* for every line that does not start with '#', in the order of those lines,
\* and no row for a line that starts with '#'.
C1_CleanedRows ==
    pc = "create_xlsx" =>
        /\ Len(points) = Len(KeptLines)
        /\ \A k \in 1..Len(points) :
              /\ StripEol(Join(points[k])) = StripEol(KeptLines[k])
              /\ Head(Join(points[k])) # "#"

C1_Witness ==
    /\ pc = "create_xlsx"
    /\ HasNoiseLine
    /\ Len(points) >= 1
    /\ \E i \in 1..Len(Lines(file)) :
          Head(Lines(file)[i]) # "#" /\ "#" \in {Lines(file)[i][j] : j \in 1..Len(Lines(file)[i])}

\* C2: the third field of every cleaned row holds neither '\r' nor '\n',
\* whatever the line ending of its line.
C2_ThirdFieldNoEol ==
    \A k \in 1..Len(points) :
        \A i \in 1..Len(points[k][3]) : points[k][3][i] \notin {CR, LF}

\* C3: validate_subsample returns x when the text parses as a number x with
\* 0 < x <= 1, and None for every other text, among them "a", "", "0",
\* "1.5" and "-0.5"; it raises nothing.
C3_ValidateSubsample ==
    pc \in {"transform", "input_error"} =>
        LET p == ParseFloat(text)
        IN  /\ (p.ok /\ 0 < p.x /\ p.x <= Scale) => value = Float(p.x)
            /\ ~(p.ok /\ 0 < p.x /\ p.x <= Scale) => value = None
            /\ text \in {<<"a">>, <<>>, <<"0">>, <<"1", ".", "5">>,
                         <<"-", "0", ".", "5">>, <<"-">>, <<".">>,
                         <<"1", ".", "0", "1">>} => value = None
            /\ text \in {<<"1">>, <<"1", ".", "0">>, <<"1", ".">>} => value = Float(Scale)
            /\ text \in {<<".", "5">>, <<"0", ".", "5">>} => 2 * value.x = Scale /\ ~value.none

C3_Witness ==
    /\ pc = "input_error"
    /\ text = <<"1", ".", "5">>
    /\ value = None

\* C4: after the warning for a rejected fraction the run is not over: the
\* subsample dialog is shown again.
C4_Reprompt ==
    (pc = "done" /\ warnings > 0) => prompts >= 2

\* C5: the number of rows written is f * N rounded to the nearest integer,
\* halves rounded up, for the accepted fraction f and the N cleaned rows.
C5_RowCount ==
    xlsx.exists =>
        LET n == Len(xlsx.rows)
            fN == value.x * Len(points)
        IN  /\ 0 < value.x /\ value.x <= Scale
            /\ 2 * n * Scale - Scale <= 2 * fN
            /\ 2 * fN < 2 * n * Scale + Scale

C5_Witness ==
    /\ xlsx.exists
    /\ Len(points) = 3
    /\ 2 * value.x = Scale
    /\ Len(xlsx.rows) = 2

\* C6: the rows written are rows of the cleaned dataset taken at pairwise
\* different positions; with fraction 1.0 and a file without '#' lines the
\* output has one row per line and is the cleaned dataset as a multiset.
C6_WithoutReplacement ==
    xlsx.exists =>
        /\ Len(sampled) = Len(xlsx.rows)
        /\ \A i \in 1..Len(sampled) :
              /\ sampled[i] \in 1..Len(points)
              /\ xlsx.rows[i] = points[sampled[i]]
        /\ \A i, j \in 1..Len(sampled) : i # j => sampled[i] # sampled[j]
        /\ (value.x = Scale /\ ~HasNoiseLine) =>
              /\ Len(xlsx.rows) = Len(Lines(file))
              /\ \A k \in 1..Len(points) :
                    Count(xlsx.rows, points[k]) = Count(points, points[k])

C6_Witness ==
    /\ xlsx.exists
    /\ value.x = Scale
    /\ ~HasNoiseLine
    /\ Len(xlsx.rows) = 3
    /\ xlsx.rows # points
    /\ points[1] = points[3]
    /\ points[1] # points[2]

C8_MalformedLineFatal ==
    /\ (lineno > 0 /\ BadLines # {}) =>
          /\ pc \in {"clean", "crashed"}
          /\ \A i \in BadLines : lineno <= i
          /\ ~xlsx.exists
          /\ sampled = <<>>
    /\ pc = "crashed" => (lineno \in BadLines /\ ~xlsx.exists)

C8_Witness ==
    /\ pc = "crashed"
    /\ Len(points) = 2
    /\ Lines(file)[lineno] = <<CR, LF>>

\* C9: the file is read and the output written only after the file dialog
\* and then the subsample dialog were confirmed; once either is closed
\* without confirming nothing more happens.
C9_DialogGates ==
    /\ (lineno > 0 \/ xlsx.exists \/ calls # <<>>) =>
          (fileDlg = "accepted" /\ subDlg = "accepted")
    /\ subDlg # "unshown" => fileDlg = "accepted"
    /\ fileDlg = "rejected" => (subDlg = "unshown" /\ prompts = 0)
    /\ (fileDlg = "rejected" \/ subDlg = "rejected") =>
          /\ pc = "done"
          /\ lineno = 0
          /\ points = <<>>
          /\ warnings = 0
          /\ calls = <<>>
          /\ ~xlsx.exists

C9_Witness ==
    /\ fileDlg = "accepted"
    /\ subDlg = "rejected"
    /\ pc = "done"

\* C10: with both dialogs confirmed, transform is called once, with the
\* value the validator returned and an empty container, exactly when the
\* validator returned a value, and the warning is shown exactly when it
\* returned None.
C10_Dispatch ==
    /\ Len(calls) <= 1
    /\ warnings <= 1
    /\ pc \in {"transform", "input_error"} => (pc = "transform" <=> ~value.none)
    /\ (subDlg = "accepted" /\ pc \in {"done", "crashed", "clean", "create_xlsx"}) =>
          /\ ~value.none <=> calls = <<[container |-> <<>>, subsample |-> value]>>
          /\ value.none <=> calls = <<>>
          /\ value.none <=> warnings = 1
          /\ ~value.none <=> warnings = 0

C10_Witness ==
    /\ pc = "done"
    /\ Len(calls) = 1
    /\ calls[1].subsample.x < Scale
    /\ xlsx.exists

====
